---- MODULE Spec2Model ----
(***************************************************************************)
(* Model of pokerpoint.py: a JSON file poker_points.json holding a dict    *)
(* user id -> points, the functions that read and rewrite it, the          *)
(* leaderboard renderer and the admin upload handler.                      *)
(*                                                                         *)
(*   Spec     - the ledger functions called one after another              *)
(*   SpecIO   - two callers whose load and save steps interleave, a save   *)
(*              being open(..,'w'), a series of writes, and close          *)
(*   SpecRank - render_table applied to a snapshot                         *)
(***************************************************************************)
EXTENDS Integers, Sequences, FiniteSets, TLC

VARIABLES data_file, last, procs, ncalls, data, html, hist, run,
          ADMIN_PASSWORD_HASH

vars == <<data_file, last, procs, ncalls, data, html, hist, run,
         ADMIN_PASSWORD_HASH>>

\* the variables of the script runs
runvars == <<run, ADMIN_PASSWORD_HASH>>

(***************************************************************************)
(* Bounds                                                                  *)
(***************************************************************************)
MaxPts == 2          \* balances and arguments range over -MaxPts..MaxPts
MaxRankPts == 1      \* SpecRank: points range over -MaxRankPts..MaxRankPts
MaxCalls == 3        \* SpecIO: calls started; SpecRun: runs started
MaxRunPts == 300     \* SpecRun: balances stay within -MaxRunPts..MaxRunPts

UserIds == {"a", "b"}
RankIds == <<"a", "b", "c">>
Callers == {1, 2}

(***************************************************************************)
(* JSON values.  A number is an int or a float; floats are represented by  *)
(* n standing for n + 0.5.  "str" and "obj" are a string and a nested      *)
(* object, which json.load accepts as member values.                       *)
(***************************************************************************)
Int_(n) == [t |-> "int", n |-> n]
Float_(n) == [t |-> "float", n |-> n]
Str_ == [t |-> "str", n |-> 0]
Obj_ == [t |-> "obj", n |-> 0]

IsInt(v) == v.t = "int"
IsNumber(v) == v.t \in {"int", "float"}

Pts == (-MaxPts)..MaxPts

(***************************************************************************)
(* A Python dict: a sequence of members with distinct keys, in insertion   *)
(* order.                                                                  *)
(***************************************************************************)
Keys(d) == {d[i].k : i \in DOMAIN d}
HasKey(d, u) == \E i \in DOMAIN d : d[i].k = u
IndexOf(d, u) == CHOOSE i \in DOMAIN d : d[i].k = u
GetItem(d, u) == d[IndexOf(d, u)].v

\* d[u] = v : overwrite in place, or append a new key
SetItem(d, u, v) ==
    IF HasKey(d, u)
    THEN [d EXCEPT ![IndexOf(d, u)].v = v]
    ELSE Append(d, [k |-> u, v |-> v])

(***************************************************************************)
(* JSON text, as a sequence of tokens.                                     *)
(***************************************************************************)
Tok(kind, k, v) == [tok |-> kind, k |-> k, v |-> v]
LBrace == Tok("{", "", Int_(0))
RBrace == Tok("}", "", Int_(0))
LBracket == Tok("[", "", Int_(0))
RBracket == Tok("]", "", Int_(0))
Member(m) == Tok("member", m.k, m.v)

\* json.dump(data, f, ensure_ascii=False, indent=2) of a dict
json_dump(d) == <<LBrace>> \o [i \in DOMAIN d |-> Member(d[i])] \o <<RBrace>>

RECURSIVE FromMembers(_)
FromMembers(toks) ==
    IF toks = <<>> THEN <<>>
    ELSE LET n == Len(toks)
             m == toks[n]
         IN SetItem(FromMembers(SubSeq(toks, 1, n - 1)), m.k, m.v)

\* json.load: a dict, another JSON value, or JSONDecodeError
json_load(text) ==
    LET n == Len(text) IN
    IF /\ n >= 2
       /\ text[1] = LBrace
       /\ text[n] = RBrace
       /\ \A i \in 2..(n - 1) : text[i].tok = "member"
    THEN [kind |-> "dict", d |-> FromMembers(SubSeq(text, 2, n - 1))]
    ELSE IF n >= 2 /\ text[1] = LBracket /\ text[n] = RBracket
    THEN [kind |-> "list", d |-> <<>>]
    ELSE [kind |-> "error", d |-> <<>>]

(***************************************************************************)
(* The file poker_points.json                                              *)
(***************************************************************************)
NoFile == [exists |-> FALSE, text |-> <<>>]
FileWith(text) == [exists |-> TRUE, text |-> text]

\* load_data: {} when the file is missing, otherwise json.load of it
load_data(f) ==
    IF f.exists THEN json_load(f.text) ELSE [kind |-> "dict", d |-> <<>>]

\* save_data, run to completion
save_data(d) == FileWith(json_dump(d))

(***************************************************************************)
(* The ledger functions.  Each is given the file and returns the file it   *)
(* leaves behind together with what it returns:                            *)
(*   "True" / "False" / "None"  the Python value returned                  *)
(*   "value"                    get_points found the user; val is the value*)
(*   "raised"                   an exception left the function             *)
(***************************************************************************)
\* the function returned without calling save_data
Kept(f, ret, val) ==
    [file |-> f, save |-> FALSE, data |-> <<>>, ret |-> ret, val |-> val]

\* the function called save_data(d) before returning
Saved(d, ret) ==
    [file |-> save_data(d), save |-> TRUE, data |-> d, ret |-> ret,
     val |-> Int_(0)]

\* register_user overwriting an existing user with 0
register_user_reset(f, user_id) ==
    LET r == load_data(f) IN
    IF r.kind # "dict" THEN Kept(f, "raised", Int_(0))
    ELSE Saved(SetItem(r.d, user_id, Int_(0)),
               IF HasKey(r.d, user_id) THEN "False" ELSE "True")

register_user(f, user_id) ==
    LET r == load_data(f) IN
    IF r.kind = "error" THEN Kept(f, "raised", Int_(0))
    ELSE IF r.kind = "dict" /\ HasKey(r.d, user_id)
    THEN Kept(f, "False", Int_(0))
    ELSE IF r.kind = "list"
    THEN Kept(f, "raised", Int_(0))             \* list[str] = 0 : TypeError
    ELSE Saved(SetItem(r.d, user_id, Int_(0)), "True")
\* get_points answering 0 for a user that is not registered
get_points_default0(f, user_id) ==
    LET r == load_data(f) IN
    IF r.kind # "dict" THEN Kept(f, "raised", Int_(0))
    ELSE IF HasKey(r.d, user_id)
    THEN Kept(f, "value", GetItem(r.d, user_id))
    ELSE Kept(f, "value", Int_(0))

get_points(f, user_id) ==
    LET r == load_data(f) IN
    IF r.kind # "dict" THEN Kept(f, "raised", Int_(0))
    ELSE IF HasKey(r.d, user_id)
    THEN Kept(f, "value", GetItem(r.d, user_id))
    ELSE Kept(f, "None", Int_(0))

\* v += delta : defined on int and float, TypeError on str and dict
CanAdd(v) == IsNumber(v)

\* v -= delta
Add_negated(v, delta) == [v EXCEPT !.n = @ - delta]
Add(v, delta) == [v EXCEPT !.n = @ + delta]

\* update_points creating the user when it is missing
update_points_create(f, user_id, delta) ==
    LET r == load_data(f) IN
    IF r.kind # "dict" THEN Kept(f, "raised", Int_(0))
    ELSE IF ~HasKey(r.d, user_id)
    THEN Saved(SetItem(r.d, user_id, Int_(delta)), "None")
    ELSE IF ~CanAdd(GetItem(r.d, user_id))
    THEN Kept(f, "raised", Int_(0))
    ELSE Saved(SetItem(r.d, user_id, Add(GetItem(r.d, user_id), delta)),
               "None")

update_points(f, user_id, delta) ==
    LET r == load_data(f) IN
    IF r.kind = "error" THEN Kept(f, "raised", Int_(0))
    ELSE IF ~HasKey(r.d, user_id) THEN Kept(f, "None", Int_(0))
    ELSE IF ~CanAdd(GetItem(r.d, user_id))
    THEN Kept(f, "raised", Int_(0))
    ELSE Saved(SetItem(r.d, user_id, Add(GetItem(r.d, user_id), delta)),
               "None")

\* set_points saving a dict that holds the one user only
set_points_alone(f, user_id, new_points) ==
    LET r == load_data(f) IN
    IF r.kind = "error" THEN Kept(f, "raised", Int_(0))
    ELSE IF ~HasKey(r.d, user_id) THEN Kept(f, "None", Int_(0))
    ELSE Saved(<<[k |-> user_id, v |-> Int_(new_points)]>>, "None")

\* set_points adding new_points to the balance instead of replacing it
set_points_adding(f, user_id, new_points) ==
    update_points(f, user_id, new_points)

set_points(f, user_id, new_points) ==
    LET r == load_data(f) IN
    IF r.kind = "error" THEN Kept(f, "raised", Int_(0))
    ELSE IF ~HasKey(r.d, user_id) THEN Kept(f, "None", Int_(0))
    ELSE Saved(SetItem(r.d, user_id, Int_(new_points)), "None")

(***************************************************************************)
(* The admin upload handler: json.load of the uploaded file, save_data     *)
(* when the document is a dict.                                            *)
(*   "success"  saved        "invalid"  not a dict       "error"  except   *)
(***************************************************************************)
\* upload merging the document into the stored dict
upload_merging(f, doc) ==
    LET new_data == json_load(doc)
        r == load_data(f)
        RECURSIVE Merge(_, _)
        Merge(d, e) == IF e = <<>> THEN d
                       ELSE Merge(SetItem(d, e[1].k, e[1].v), Tail(e))
    IN IF new_data.kind = "error" THEN Kept(f, "error", Int_(0))
       ELSE IF new_data.kind = "dict"
       THEN Saved(Merge(r.d, new_data.d), "success")
       ELSE Kept(f, "invalid", Int_(0))

upload(f, doc) ==
    LET new_data == json_load(doc) IN
    IF new_data.kind = "error" THEN Kept(f, "error", Int_(0))
    ELSE IF new_data.kind = "dict"
    THEN Saved(new_data.d, "success")
    ELSE Kept(f, "invalid", Int_(0))

(***************************************************************************)
(* Uploaded documents: every object of at most as many members as there   *)
(* are user ids (a key may repeat), an array, and text that does not parse.*)
(***************************************************************************)
DocVals == {Int_(0), Int_(1), Float_(0), Str_, Obj_}
Members == [k : UserIds, v : DocVals]
MemberSeqs == UNION {[1..n -> Members] : n \in 0..Cardinality(UserIds)}
ObjectDocs == {json_dump(ms) : ms \in MemberSeqs}
ArrayDoc == <<LBracket, RBracket>>
BrokenDoc == <<LBrace>>
Docs == ObjectDocs \cup {ArrayDoc, BrokenDoc}

(***************************************************************************)
(* Spec: the functions called one after another                            *)
(***************************************************************************)
Call(op, u, arg, doc, out) ==
    [op |-> op, u |-> u, arg |-> arg, doc |-> doc,
     ret |-> out.ret, val |-> out.val]

NoCall == [op |-> "none", u |-> "", arg |-> 0, doc |-> <<>>,
           ret |-> "None", val |-> Int_(0)]

Idle == [pc |-> "idle", op |-> "none", u |-> "", arg |-> 0,
         data |-> <<>>, old |-> <<>>, pos |-> 0, ret |-> "None"]

\* what the calls so far have returned: regs[u] counts the register_user(u)
\* calls that returned True, overlapped tells whether a call ever started
\* while another was between its load and the end of its save
NoHist == [regs |-> [u \in UserIds |-> 0], overlapped |-> FALSE]

\* no script run yet
NoRun == [mode |-> "none", user_id |-> "", pwd |-> "", gate |-> FALSE,
          verified |-> FALSE, reg |-> "none", shown |-> FALSE,
          pts |-> Int_(0), made |-> FALSE, download |-> <<>>,
          raised |-> "none"]

\* ADMIN_PASSWORD_HASH when secrets.toml does not set admin_password_hash
DefaultHash ==
    "2cef86d059837fc3e32df7a286bfc692012e50e0c1547968b569cc26df47af04"

Init ==
    /\ data_file = NoFile
    /\ last = NoCall
    /\ procs = [p \in Callers |-> Idle]
    /\ ncalls = 0
    /\ data = <<>>
    /\ html = <<>>
    /\ hist = NoHist
    /\ run = NoRun
    /\ ADMIN_PASSWORD_HASH = DefaultHash

InBound(f) ==
    LET r == load_data(f) IN
    \A i \in DOMAIN r.d : r.d[i].v.n \in Pts

RegisterUser(u) ==
    LET out == register_user(data_file, u) IN
    /\ data_file' = out.file
    /\ last' = Call("register_user", u, 0, <<>>, out)
    /\ UNCHANGED <<procs, ncalls, data, html, hist, runvars>>

GetPoints(u) ==
    LET out == get_points(data_file, u) IN
    /\ data_file' = out.file
    /\ last' = Call("get_points", u, 0, <<>>, out)
    /\ UNCHANGED <<procs, ncalls, data, html, hist, runvars>>

UpdatePoints(u, delta) ==
    LET out == update_points(data_file, u, delta) IN
    /\ InBound(out.file)
    /\ data_file' = out.file
    /\ last' = Call("update_points", u, delta, <<>>, out)
    /\ UNCHANGED <<procs, ncalls, data, html, hist, runvars>>

SetPoints(u, new_points) ==
    LET out == set_points(data_file, u, new_points) IN
    /\ data_file' = out.file
    /\ last' = Call("set_points", u, new_points, <<>>, out)
    /\ UNCHANGED <<procs, ncalls, data, html, hist, runvars>>

Upload(doc) ==
    LET out == upload(data_file, doc) IN
    /\ data_file' = out.file
    /\ last' = Call("upload", "", 0, doc, out)
    /\ UNCHANGED <<procs, ncalls, data, html, hist, runvars>>

Next ==
    \/ \E u \in UserIds : RegisterUser(u)
    \/ \E u \in UserIds : GetPoints(u)
    \/ \E u \in UserIds, delta \in Pts : UpdatePoints(u, delta)
    \/ \E u \in UserIds, new_points \in Pts : SetPoints(u, new_points)
    \/ \E doc \in Docs : Upload(doc)

Spec == Init /\ [][Next]_vars

(***************************************************************************)
(* render_table                                                            *)
(***************************************************************************)
\* the sort key x[1]; an int n is 2n, a float n + 0.5 is 2n + 1
Key(v) == IF v.t = "float" THEN 2 * v.n + 1 ELSE 2 * v.n

\* pts < 0
Negative(v) == v.n < 0

\* insert m in front of the members with the same points: ties reversed
RECURSIVE InsertDesc_unstable(_, _)
InsertDesc_unstable(s, m) ==
    IF s = <<>> THEN <<m>>
    ELSE IF Key(s[1].v) > Key(m.v)
    THEN <<s[1]>> \o InsertDesc_unstable(Tail(s), m)
    ELSE <<m>> \o s

\* insert m behind every member whose points are not smaller
RECURSIVE InsertDesc(_, _)
InsertDesc(s, m) ==
    IF s = <<>> THEN <<m>>
    ELSE IF Key(s[1].v) >= Key(m.v) THEN <<s[1]>> \o InsertDesc(Tail(s), m)
    ELSE <<m>> \o s

RECURSIVE SortedFrom(_, _)
SortedFrom(acc, d) ==
    IF d = <<>> THEN acc ELSE SortedFrom(InsertDesc(acc, d[1]), Tail(d))

\* the items left in insertion order
sorted_insertion_order(d) == d

\* sorted(data.items(), key=lambda x: x[1], reverse=True)
sorted(d) == SortedFrom(<<>>, d)

None_ == [t |-> "None", n |-> 0]

\* dense ranking: the next rank is one more than the previous one
next_rank_dense(pts, prev_pts, rank, count) ==
    IF pts # prev_pts THEN rank + 1 ELSE rank

\* if pts != prev_pts: rank = count
next_rank(pts, prev_pts, rank, count) ==
    IF pts # prev_pts THEN count ELSE rank

TopStyle == "background-color:#ffff99;"
NegativeStyle == "background-color:#ffcccc;"
NoStyle == ""

\* the red test made before the yellow one
row_style_negative_first(rank, pts) ==
    IF Negative(pts) THEN NegativeStyle
    ELSE IF rank = 1 THEN TopStyle
    ELSE NoStyle

row_style(rank, pts) ==
    IF rank = 1 THEN TopStyle
    ELSE IF Negative(pts) THEN NegativeStyle
    ELSE NoStyle

\* the for loop over ranked, from the i-th member on
RECURSIVE RenderFrom(_, _, _, _)
RenderFrom(ranked, i, prev_pts, rank) ==
    IF i > Len(ranked) THEN <<>>
    ELSE LET uid == ranked[i].k
             pts == ranked[i].v
             count == i
             r == next_rank(pts, prev_pts, rank, count)
         IN <<[rank |-> r, uid |-> uid, pts |-> pts,
               row_style |-> row_style(r, pts)]>>
            \o RenderFrom(ranked, i + 1, pts, r)

render_table(d) == RenderFrom(sorted(d), 1, None_, 0)

(***************************************************************************)
(* SpecRank: render_table applied to a snapshot.  The snapshots are the    *)
(* dicts over RankIds, in every insertion order, with int and float points.*)
(***************************************************************************)
RankPts == (-MaxRankPts)..MaxRankPts
RankVals == {Int_(n) : n \in RankPts} \cup {Float_(n) : n \in RankPts}
RankIdSet == {RankIds[i] : i \in DOMAIN RankIds}
Snapshots ==
    {s \in UNION {[1..n -> [k : RankIdSet, v : RankVals]] : n \in 0..Len(RankIds)} :
        \A i, j \in DOMAIN s : i # j => s[i].k # s[j].k}

InitRank ==
    /\ data_file = NoFile
    /\ last = NoCall
    /\ procs = [p \in Callers |-> Idle]
    /\ ncalls = 0
    /\ data \in Snapshots
    /\ html = <<>>
    /\ hist = NoHist
    /\ run = NoRun
    /\ ADMIN_PASSWORD_HASH = DefaultHash

\* if data: render_table(data)
Render ==
    /\ data # <<>>
    /\ html = <<>>
    /\ html' = render_table(data)
    /\ UNCHANGED <<data_file, last, procs, ncalls, data, hist, runvars>>

NextRank == Render

SpecRank == InitRank /\ [][NextRank]_vars

\* the dict a load_data of the file returns
Ledger(f) == load_data(f).d

(***************************************************************************)
(* SpecIO: two callers.  A call loads the file and decides in one step;    *)
(* when it decided to save, the save is open(DATA_FILE, 'w'), which        *)
(* truncates the file, then the writes of json.dump at the writer's own    *)
(* file offset, then close.  A save can be cut short between open and      *)
(* close (an I/O error, a rerun or a stop of the script): the file keeps   *)
(* what was written up to then.                                            *)
(***************************************************************************)
IOArgs == {-1, 1}
IODoc == json_dump(<<[k |-> "b", v |-> Int_(1)]>>)
Hole == Tok("\\0", "", Int_(0))

\* the function op applied to the file f
Run(op, u, arg, f) ==
    CASE op = "register_user" -> register_user(f, u)
      [] op = "get_points" -> get_points(f, u)
      [] op = "update_points" -> update_points(f, u, arg)
      [] op = "set_points" -> set_points(f, u, arg)
      [] op = "upload" -> upload(f, IODoc)

\* write tok at offset pos of text
WriteAt(text, pos, tok) ==
    [i \in 1..(IF Len(text) > pos + 1 THEN Len(text) ELSE pos + 1) |->
        IF i = pos + 1 THEN tok
        ELSE IF i <= Len(text) THEN text[i]
        ELSE Hole]

InitIO == Init

\* the call starts: load_data, the membership test, the change to data
Begin(p, op, u, arg) ==
    LET out == Run(op, u, arg, data_file) IN
    /\ procs[p].pc = "idle"
    /\ ncalls < MaxCalls
    /\ ncalls' = ncalls + 1
    /\ procs' = [procs EXCEPT ![p] =
          [pc |-> IF out.save THEN "save" ELSE "idle",
           op |-> op, u |-> u, arg |-> arg,
           data |-> out.data, old |-> <<>>, pos |-> 0,
           ret |-> IF out.save THEN "pending" ELSE out.ret]]
    /\ hist' = [hist EXCEPT !.overlapped =
                    @ \/ \E q \in Callers \ {p} : procs[q].pc # "idle"]
    /\ UNCHANGED <<data_file, last, data, html, runvars>>

\* open(DATA_FILE, 'w', encoding='utf-8')
OpenW(p) ==
    /\ procs[p].pc = "save"
    /\ data_file' = FileWith(<<>>)
    /\ procs' = [procs EXCEPT ![p].pc = "write", ![p].pos = 0,
                              ![p].old = Ledger(data_file)]
    /\ UNCHANGED <<last, ncalls, data, html, hist, runvars>>

\* json.dump writes the next piece of the text
Write(p) ==
    LET text == json_dump(procs[p].data) IN
    /\ procs[p].pc = "write"
    /\ procs[p].pos < Len(text)
    /\ data_file' = FileWith(WriteAt(data_file.text, procs[p].pos,
                                     text[procs[p].pos + 1]))
    /\ procs' = [procs EXCEPT ![p].pos = @ + 1]
    /\ UNCHANGED <<last, ncalls, data, html, hist, runvars>>

\* the with block ends, the function returns
Close(p) ==
    /\ procs[p].pc = "write"
    /\ procs[p].pos = Len(json_dump(procs[p].data))
    /\ procs' = [procs EXCEPT ![p].pc = "idle",
                              ![p].old = <<>>, ![p].pos = 0,
                              ![p].ret = Run(procs[p].op, procs[p].u,
                                             procs[p].arg, NoFile).ret]
    /\ hist' = IF procs[p].op = "register_user"
               THEN [hist EXCEPT !.regs[procs[p].u] = @ + 1]
               ELSE hist
    /\ UNCHANGED <<data_file, last, ncalls, data, html, runvars>>

\* the save is cut short between open and close
Interrupt(p) ==
    /\ procs[p].pc = "write"
    /\ procs[p].pos < Len(json_dump(procs[p].data))
    /\ procs' = [procs EXCEPT ![p].pc = "idle", ![p].data = <<>>,
                              ![p].old = <<>>, ![p].pos = 0,
                              ![p].ret = "interrupted"]
    /\ UNCHANGED <<data_file, last, ncalls, data, html, hist, runvars>>

NextIO ==
    \/ \E p \in Callers, u \in UserIds : Begin(p, "register_user", u, 0)
    \/ \E p \in Callers, u \in UserIds : Begin(p, "get_points", u, 0)
    \/ \E p \in Callers, u \in UserIds, arg \in IOArgs :
          Begin(p, "update_points", u, arg)
    \/ \E p \in Callers, u \in UserIds, arg \in IOArgs :
          Begin(p, "set_points", u, arg)
    \/ \E p \in Callers : Begin(p, "upload", "", 0)
    \/ \E p \in Callers : OpenW(p)
    \/ \E p \in Callers : Write(p)
    \/ \E p \in Callers : Close(p)
    \/ \E p \in Callers : Interrupt(p)

SpecIO == InitIO /\ [][NextIO]_vars

(***************************************************************************)
(* SpecRace: the register_user, update_points and set_points calls of two  *)
(* callers, interleaved at their load and save steps, every save running   *)
(* to its close.                                                           *)
(***************************************************************************)
NextRace ==
    \/ \E p \in Callers, u \in UserIds : Begin(p, "register_user", u, 0)
    \/ \E p \in Callers, u \in UserIds, arg \in IOArgs :
          Begin(p, "update_points", u, arg)
    \/ \E p \in Callers, u \in UserIds, arg \in IOArgs :
          Begin(p, "set_points", u, arg)
    \/ \E p \in Callers : OpenW(p)
    \/ \E p \in Callers : Write(p)
    \/ \E p \in Callers : Close(p)

SpecRace == InitIO /\ [][NextRace]_vars

(***************************************************************************)
(* The password check                                                      *)
(***************************************************************************)
Passwords == {"", "correct", "wrong"}

\* hashlib.sha256(input_pwd.encode('utf-8')).hexdigest()
sha256_hexdigest(input_pwd) ==
    CASE input_pwd = "" ->
           "e3b0c44298fc1c149afbf4c8996fb92427ae41e4649b934ca495991b7852b855"
      [] input_pwd = "correct" ->
           "15a596e3c98c407e043751ff3b21ff0358a1bdfdf3fe948b1523893a8e5de2e8"
      [] input_pwd = "wrong" ->
           "8810ad581e59f2bc3928b261707a71308f7e139eb04820366dc4d5c18d980225"

\* the input compared with the stored hash as it is, not hashed
verify_password_plain(input_pwd, stored_hash) ==
    IF stored_hash = "" THEN FALSE ELSE input_pwd = stored_hash

\* verify_password, ADMIN_PASSWORD_HASH being stored_hash
verify_password(input_pwd, stored_hash) ==
    IF stored_hash = "" THEN FALSE
    ELSE sha256_hexdigest(input_pwd) = stored_hash

\* any password that is not empty lets the run through
gate_any_password(pwd, stored_hash) == pwd # ""

\* if pwd and verify_password(pwd)
gate(pwd, stored_hash) == pwd # "" /\ verify_password(pwd, stored_hash)

\* st.secrets.get("admin_password_hash", <default>) for the secrets files
\* that do not set the hash, set it to "" and set it to sha256("correct")
SecretsFiles ==
    {[set |-> FALSE, value |-> ""], [set |-> TRUE, value |-> ""],
     [set |-> TRUE, value |-> sha256_hexdigest("correct")]}
secrets_get(secrets) == IF secrets.set THEN secrets.value ELSE DefaultHash
StoredHashes == {secrets_get(secrets) : secrets \in SecretsFiles}

(***************************************************************************)
(* SpecRun: runs of the script, one after another.  A run is the whole     *)
(* script from line 128 on, in user mode or in admin mode, with the widget *)
(* values of that run.                                                     *)
(***************************************************************************)
MaxWithdraw == 300
InitialPoints == 300
LoginBonus == 150

\* values of the two number inputs
Amounts == {0, 300}

NoDoc == <<>>
RunDocs ==
    {ArrayDoc,
     json_dump(<<[k |-> "a", v |-> Int_(1)]>>),
     json_dump(<<[k |-> "b", v |-> Str_]>>),
     json_dump(<<[k |-> "a", v |-> Str_], [k |-> "b", v |-> Int_(0)]>>)}

Buttons == {"max_withdraw", "reset", "login_bonus", "withdraw",
            "deposit_discount", "deposit"}

\* math.floor(deposit * 0.9)
DiscountedDeposit(deposit) == (deposit * 9) \div 10

\* the call a pressed button makes
ButtonCall(button, target, amount, f) ==
    CASE button = "max_withdraw" -> update_points(f, target, -MaxWithdraw)
      [] button = "reset" -> set_points(f, target, InitialPoints)
      [] button = "login_bonus" -> update_points(f, target, LoginBonus)
      [] button = "withdraw" -> update_points(f, target, -amount)
      [] button = "deposit_discount" ->
             update_points(f, target, DiscountedDeposit(amount))
      [] button = "deposit" -> update_points(f, target, amount)

\* sorted raises TypeError when it has to compare a dict with anything or a
\* str with a number
sorted_raises(d) ==
    /\ Len(d) >= 2
    /\ \/ \E i \in DOMAIN d : d[i].v.t = "obj"
       \/ \E i, j \in DOMAIN d : IsNumber(d[i].v) # IsNumber(d[j].v)

\* render_table raises: in sorted, or in pts < 0 on a row that is not rank 1
render_raises(d) ==
    \/ sorted_raises(d)
    \/ \E i \in DOMAIN render_table(d) :
          /\ render_table(d)[i].rank # 1
          /\ ~IsNumber(render_table(d)[i].pts)

InitRun ==
    /\ data_file = NoFile
    /\ last = NoCall
    /\ procs = [p \in Callers |-> Idle]
    /\ ncalls = 0
    /\ data = <<>>
    /\ html = <<>>
    /\ hist = NoHist
    /\ run = NoRun
    /\ ADMIN_PASSWORD_HASH \in StoredHashes

InBoundRun(f) ==
    \A i \in DOMAIN Ledger(f) :
        Ledger(f)[i].v.n \in (-MaxRunPts)..MaxRunPts

\* a run in user mode: user_id typed, the register button pressed or not
UserRun(user_id, clicked) ==
    LET r0 == load_data(data_file)
        reg == IF clicked /\ user_id # ""
               THEN register_user(data_file, user_id)
               ELSE Kept(data_file, "none", Int_(0))
        got == get_points(reg.file, user_id)
        shown == user_id # "" /\ got.ret = "value"
        rr == r0.d # <<>> /\ render_raises(r0.d)
    IN /\ ncalls < MaxCalls
       /\ ncalls' = ncalls + 1
       /\ r0.kind = "dict"
       /\ data_file' = reg.file
       /\ data' = r0.d
       /\ html' = IF r0.d # <<>> /\ ~rr THEN render_table(r0.d) ELSE <<>>
       /\ run' = [mode |-> "user", user_id |-> user_id, pwd |-> "",
                  gate |-> FALSE, verified |-> FALSE, reg |-> reg.ret,
                  shown |-> shown,
                  pts |-> IF shown THEN got.val ELSE Int_(0),
                  made |-> ~rr,
                  download |-> IF rr THEN <<>> ELSE json_dump(r0.d),
                  raised |-> IF rr THEN "render" ELSE "none"]
       /\ UNCHANGED <<last, procs, hist, ADMIN_PASSWORD_HASH>>

\* a run in admin mode: the password typed, a file in the uploader or not,
\* one button pressed or none
AdminRun(pwd, doc, button, target, amount) ==
    LET r0 == load_data(data_file)
        ok == gate(pwd, ADMIN_PASSWORD_HASH)
        up == IF ok /\ doc # NoDoc THEN upload(data_file, doc)
              ELSE Kept(data_file, "none", Int_(0))
        d1 == IF up.ret = "success" THEN json_load(doc).d ELSE r0.d
        rr == d1 # <<>> /\ render_raises(d1)
        pressed == ok /\ d1 # <<>> /\ ~rr /\ button # "none"
        act == IF pressed THEN ButtonCall(button, target, amount, up.file)
               ELSE Kept(up.file, "none", Int_(0))
    IN /\ ncalls < MaxCalls
       /\ ncalls' = ncalls + 1
       /\ r0.kind = "dict"
       /\ button # "none" => target \in Keys(d1)
       /\ InBoundRun(act.file)
       /\ data_file' = act.file
       /\ data' = IF pressed /\ act.ret # "raised" THEN Ledger(act.file)
                  ELSE d1
       /\ html' = IF ok /\ d1 # <<>> /\ ~rr THEN render_table(d1) ELSE <<>>
       /\ run' = [mode |-> "admin", user_id |-> "", pwd |-> pwd,
                  gate |-> ok,
                  verified |-> pwd # ""
                               /\ verify_password(pwd, ADMIN_PASSWORD_HASH),
                  reg |-> "none", shown |-> FALSE, pts |-> Int_(0),
                  made |-> ok,
                  download |-> IF ok THEN json_dump(d1) ELSE <<>>,
                  raised |-> IF ok /\ rr THEN "render"
                             ELSE IF act.ret = "raised" THEN "update"
                             ELSE "none"]
       /\ UNCHANGED <<last, procs, hist, ADMIN_PASSWORD_HASH>>

NextRun ==
    \/ \E user_id \in UserIds \cup {""}, clicked \in BOOLEAN :
          UserRun(user_id, clicked)
    \/ \E pwd \in Passwords, doc \in RunDocs \cup {NoDoc} :
          AdminRun(pwd, doc, "none", "", 0)
    \/ \E pwd \in Passwords, doc \in RunDocs \cup {NoDoc},
          button \in Buttons, target \in UserIds, amount \in Amounts :
          AdminRun(pwd, doc, button, target, amount)

SpecRun == InitRun /\ [][NextRun]_vars

(***************************************************************************)
(* Properties of the ledger functions (Spec)                               *)
(***************************************************************************)
\* every user but u has the same balance in d and e, and the users are the same
SameButFor(d, e, u) ==
    /\ Keys(e) = Keys(d)
    /\ \A w \in Keys(d) \ {u} : GetItem(e, w) = GetItem(d, w)

\* C1: register_user(u) returns True exactly when u was absent; it then adds
\* u with 0 and changes no other entry; when it returns False the file is
\* untouched and u keeps its balance.  A second register_user(u) right after
\* a successful one returns False and leaves one entry u -> 0.
C1_Register ==
    [][last'.op = "register_user" =>
        LET d == Ledger(data_file)
            e == Ledger(data_file')
            u == last'.u
        IN /\ (last'.ret = "True") <=> ~HasKey(d, u)
           /\ (last'.ret = "False") <=> HasKey(d, u)
           /\ last'.ret = "True" =>
                /\ HasKey(e, u) /\ GetItem(e, u) = Int_(0)
                /\ Keys(e) = Keys(d) \cup {u}
                /\ \A w \in Keys(d) : GetItem(e, w) = GetItem(d, w)
           /\ last'.ret = "False" =>
                /\ data_file' = data_file
                /\ GetItem(e, u) = GetItem(d, u)
           /\ (last.op = "register_user" /\ last.u = u /\ last.ret = "True") =>
                /\ last'.ret = "False"
                /\ Cardinality({i \in DOMAIN e : e[i].k = u}) = 1
                /\ GetItem(e, u) = Int_(0)
    ]_vars

\* register_user refused a user whose balance is not 0, next to another user
C1_Witness ==
    /\ last.op = "register_user"
    /\ last.ret = "False"
    /\ HasKey(Ledger(data_file), last.u)
    /\ GetItem(Ledger(data_file), last.u) # Int_(0)
    /\ Len(Ledger(data_file)) = 2

\* C2: update_points and set_points on a user that is not in the file write
\* nothing: the file is the same afterwards, the user is not created and
\* get_points still returns None.
C2_AbsentNoOp ==
    [][(/\ last'.op \in {"update_points", "set_points"}
        /\ ~HasKey(Ledger(data_file), last'.u)) =>
          /\ data_file' = data_file
          /\ ~HasKey(Ledger(data_file'), last'.u)
          /\ get_points(data_file', last'.u).ret = "None"
    ]_vars

\* update_points with a non-zero delta was called on an absent user while
\* another user was registered
C2_Witness ==
    /\ last.op = "update_points"
    /\ last.arg # 0
    /\ ~HasKey(Ledger(data_file), last.u)
    /\ Len(Ledger(data_file)) = 1

\* C3: for a registered user whose balance is a number, update_points makes
\* the balance the previous balance plus delta (below zero included) and
\* set_points makes it the given value whatever it was; the other balances
\* and the set of users stay as they were, and get_points returns the new
\* balance.
C3_UpdateSet ==
    [][LET d == Ledger(data_file)
           e == Ledger(data_file')
           u == last'.u
       IN /\ (/\ last'.op = "update_points"
              /\ HasKey(d, u)
              /\ IsNumber(GetItem(d, u))) =>
                 /\ SameButFor(d, e, u)
                 /\ GetItem(e, u) = [GetItem(d, u) EXCEPT !.n = @ + last'.arg]
                 /\ get_points(data_file', u).val = GetItem(e, u)
          /\ (last'.op = "set_points" /\ HasKey(d, u)) =>
                 /\ SameButFor(d, e, u)
                 /\ GetItem(e, u) = Int_(last'.arg)
                 /\ get_points(data_file', u).val = Int_(last'.arg)
    ]_vars

\* update_points took a user below zero while another user was registered
C3_Witness ==
    /\ last.op = "update_points"
    /\ last.arg < 0
    /\ HasKey(Ledger(data_file), last.u)
    /\ GetItem(Ledger(data_file), last.u) = Int_(-MaxPts)
    /\ Len(Ledger(data_file)) = 2

\* a flat object of string -> integer
FlatStrToInt(doc) ==
    /\ json_load(doc).kind = "dict"
    /\ \A i \in DOMAIN json_load(doc).d : IsInt(json_load(doc).d[i].v)

\* C6: an upload whose document is not a flat object of string -> integer
\* (an array, a nested object as a value, a string or a fraction as a value)
\* is rejected and leaves the file as it was.
C6_UploadValidated ==
    [][(last'.op = "upload" /\ ~FlatStrToInt(last'.doc)) =>
          /\ last'.ret \in {"invalid", "error"}
          /\ data_file' = data_file
    ]_vars

\* C9: a successful upload replaces the file by the uploaded dict: load_data
\* returns exactly that dict, members and order, whatever was stored before.
C9_UploadReplaces ==
    [][(last'.op = "upload" /\ last'.ret = "success") =>
          /\ load_data(data_file') = json_load(last'.doc)
          /\ Keys(Ledger(data_file')) = Keys(json_load(last'.doc).d)
    ]_vars

\* an upload of a one-member object of integers succeeded
C9_Witness ==
    /\ last.op = "upload"
    /\ last.ret = "success"
    /\ FlatStrToInt(last.doc)
    /\ Len(Ledger(data_file)) = 1

\* C10: register_user, get_points, update_points and set_points never remove
\* a user: the users before a call are users after it.
C10_UsersNeverShrink ==
    [][last'.op \in {"register_user", "get_points", "update_points", "set_points"}
        => Keys(Ledger(data_file)) \subseteq Keys(Ledger(data_file'))
    ]_vars

\* set_points was called on one of two registered users
C10_Witness ==
    /\ last.op = "set_points"
    /\ HasKey(Ledger(data_file), last.u)
    /\ Len(Ledger(data_file)) = 2

(***************************************************************************)
(* Properties of render_table (SpecRank)                                   *)
(***************************************************************************)
\* the members of the snapshot with strictly more points than pts
Above(d, pts) == {j \in DOMAIN d : Key(d[j].v) > Key(pts)}

\* C4: competition ranking: a row's rank is 1 plus the number of entries with
\* strictly more points, which is the position of the first row of its tie
\* group; rows with equal points have the same rank.
C4_CompetitionRank ==
    html # <<>> =>
        /\ Len(html) = Len(data)
        /\ \A i \in DOMAIN html :
            /\ html[i].rank = 1 + Cardinality(Above(data, html[i].pts))
            /\ html[i].rank =
                 CHOOSE j \in DOMAIN html :
                    /\ html[j].pts = html[i].pts
                    /\ \A k \in 1..(j - 1) : html[k].pts # html[i].pts
            /\ \A j \in DOMAIN html :
                 html[j].pts = html[i].pts => html[j].rank = html[i].rank

\* three rows ranked 1, 1, 3
C4_Witness ==
    /\ Len(html) = 3
    /\ html[1].rank = 1 /\ html[2].rank = 1 /\ html[3].rank = 3

\* C5: a row is yellow (top) exactly when its rank is 1, negative points or
\* not; a row of rank above 1 is red (negative) exactly when its points are
\* below 0; every other row has no style.
C5_Highlight ==
    \A i \in DOMAIN html :
        /\ (html[i].row_style = TopStyle) <=> (html[i].rank = 1)
        /\ html[i].rank > 1 =>
             ((html[i].row_style = NegativeStyle) <=> Negative(html[i].pts))
        /\ (html[i].rank > 1 /\ ~Negative(html[i].pts)) =>
             html[i].row_style = NoStyle

\* every row has negative points: two tie for first, the third is red
C5_Witness ==
    /\ Len(html) = 3
    /\ \A i \in DOMAIN html : Negative(html[i].pts)
    /\ html[1].row_style = TopStyle
    /\ html[2].row_style = TopStyle
    /\ html[3].row_style = NegativeStyle

(***************************************************************************)
(* Properties of save_data under interleaving and interruption (SpecIO)    *)
(***************************************************************************)
\* C7: while a save of N over O is in progress, load_data returns O in full
\* or N in full, never the content of an empty or half-written file.
C7_AtomicSave ==
    \A q \in Callers :
        procs[q].pc = "write" =>
            /\ load_data(data_file).kind = "dict"
            /\ Ledger(data_file) \in {procs[q].old, procs[q].data}

\* C8: once no save is in progress, finished or cut short, the file holds a
\* complete dict; no empty or truncated content stays behind.
C8_NoPartialWrite ==
    (\A p \in Callers : procs[p].pc # "write") =>
        load_data(data_file).kind = "dict"

(***************************************************************************)
(* Properties of load_data and of the stored values (Spec)                 *)
(***************************************************************************)
\* C11: load_data returns the empty dict when there is no file, and raises
\* on every content that is not an object of string -> integer (text that
\* does not parse, an array, a nested object or a non-integer as a value).
C11_LoadValidates ==
    /\ ~data_file.exists =>
          load_data(data_file) = [kind |-> "dict", d |-> <<>>]
    /\ (data_file.exists /\ ~FlatStrToInt(data_file.text)) =>
          /\ load_data(data_file).kind = "error"
          /\ \A u \in UserIds : get_points(data_file, u).ret = "raised"

\* C12: every value of the stored dict is an integer, whatever sequence of
\* register_user, update_points, set_points and uploads came before.
C12_ValuesAreIntegers ==
    \A i \in DOMAIN Ledger(data_file) : IsInt(Ledger(data_file)[i].v)

(***************************************************************************)
(* Further properties of render_table (SpecRank)                           *)
(***************************************************************************)
\* C17: the table has one row per entry of the snapshot, in non-increasing
\* order of points; rows with equal points are in the snapshot's insertion
\* order; ranks never decrease down the table.
C17_SortedStable ==
    html # <<>> =>
        /\ Len(html) = Len(data)
        /\ \A i \in DOMAIN data :
             Cardinality({j \in DOMAIN html :
                 html[j].uid = data[i].k /\ html[j].pts = data[i].v}) = 1
        /\ \A j, k \in DOMAIN html :
             j < k =>
               /\ Key(html[j].pts) >= Key(html[k].pts)
               /\ html[j].rank <= html[k].rank
               /\ html[j].pts = html[k].pts =>
                    IndexOf(data, html[j].uid) < IndexOf(data, html[k].uid)

\* the last entry inserted is shown first, and the two tied entries behind
\* it are in insertion order, "b" before "a"
C17_Witness ==
    /\ Len(html) = 3
    /\ html[1].uid = data[3].k
    /\ html[2].pts = html[3].pts
    /\ html[2].uid = "b" /\ html[3].uid = "a"

\* C18: a row of rank 1 has negative points only when every entry of the
\* snapshot has; as soon as one entry has 0 or more, every row with negative
\* points has a rank above 1 and is red.
C18_NegativeTopOnlyIfAllNegative ==
    html # <<>> =>
        /\ \A i \in DOMAIN html :
             (html[i].rank = 1 /\ Negative(html[i].pts)) =>
                 \A j \in DOMAIN data : Negative(data[j].v)
        /\ (\E j \in DOMAIN data : ~Negative(data[j].v)) =>
             \A i \in DOMAIN html :
                 Negative(html[i].pts) =>
                     /\ html[i].rank > 1
                     /\ html[i].row_style = NegativeStyle

\* the first entry inserted is negative and is shown red below a row that
\* is not negative
C18_Witness ==
    /\ Len(html) = 3
    /\ Negative(data[1].v)
    /\ ~Negative(html[1].pts)
    /\ \E i \in DOMAIN html :
          /\ html[i].uid = data[1].k
          /\ html[i].rank > 1
          /\ html[i].row_style = NegativeStyle

(***************************************************************************)
(* Properties of interleaved calls (SpecRace) and of calls in sequence     *)
(***************************************************************************)
\* caller p has finished an update_points(u, .) that saved
UpdateDone(p, u) ==
    /\ procs[p].pc = "idle"
    /\ procs[p].op = "update_points"
    /\ procs[p].u = u
    /\ procs[p].ret = "None"
    /\ procs[p].data # <<>>

\* the registration of u and one update_points(u, .) by each caller were
\* the only calls, and all three are finished
TwoUpdates(u) ==
    /\ ncalls = 3
    /\ \A p \in Callers : UpdateDone(p, u)

\* C16: after the registration of a user and one update_points on it by
\* each of two callers, the balance is the sum of both deltas or one delta
\* alone (the last writer wins); the state where it is one delta alone, a
\* delta being lost, is reachable (C16_Witness).
C16_LastWriterWins ==
    \A u \in UserIds :
        TwoUpdates(u) =>
            /\ load_data(data_file).kind = "dict"
            /\ HasKey(Ledger(data_file), u)
            /\ IsInt(GetItem(Ledger(data_file), u))
            /\ GetItem(Ledger(data_file), u).n \in
                 {procs[1].arg + procs[2].arg, procs[1].arg, procs[2].arg}

\* both updates saved, and the balance holds the delta of one of them only
C16_Witness ==
    \E u \in UserIds :
        /\ TwoUpdates(u)
        /\ GetItem(Ledger(data_file), u).n # procs[1].arg + procs[2].arg
        /\ GetItem(Ledger(data_file), u).n \in {procs[1].arg, procs[2].arg}

\* all calls have finished
AllDone == \A p \in Callers : procs[p].pc = "idle"

\* every user whose register_user returned True is a key of the file, and
\* register_user returned True at most once for each user id
RegisteredOnceAndKept ==
    \A u \in UserIds :
        /\ hist.regs[u] <= 1
        /\ hist.regs[u] >= 1 =>
             /\ load_data(data_file).kind = "dict"
             /\ HasKey(Ledger(data_file), u)

\* C20, as claimed: when the calls of two callers interleave at their load
\* and save steps, once all calls have finished a user whose register_user
\* returned True is a key of the file, and register_user returned True at
\* most once for each user id.
C20_DurableUniqueInterleaved == AllDone => RegisteredOnceAndKept

\* C20, amended: the same, for the executions in which no call started
\* while another call was between its load and the end of its save.
C20_DurableUniqueWithoutOverlap ==
    (AllDone /\ ~hist.overlapped) => RegisteredOnceAndKept

\* both callers have made calls, one after the other, three in all, and a
\* user registered by one of them is still there
C20_Witness ==
    /\ AllDone
    /\ ~hist.overlapped
    /\ ncalls = 3
    /\ \A p \in Callers : procs[p].op # "none"
    /\ \E p \in Callers : procs[p].op \in {"update_points", "set_points"}
                          /\ procs[p].data # <<>>
    /\ \E u \in UserIds : hist.regs[u] = 1

(***************************************************************************)
(* Properties of the runs of the script (SpecRun)                          *)
(***************************************************************************)
\* C13: after a run in user mode with a user id typed, the balance line is
\* shown exactly when the user is registered, and it shows the stored
\* balance: a registered user with balance 0 is shown 0, a user that is not
\* registered is shown nothing (get_points returned None, not 0).
C13_GetDistinguishesAbsent ==
    (run.mode = "user" /\ run.user_id # "") =>
        IF HasKey(Ledger(data_file), run.user_id)
        THEN run.shown /\ run.pts = GetItem(Ledger(data_file), run.user_id)
        ELSE ~run.shown

\* a user registered in the run is shown 0 points
C13_Witness ==
    /\ run.mode = "user"
    /\ run.reg = "True"
    /\ run.shown
    /\ run.pts = Int_(0)

\* C14: whenever a run has produced a download document, the document is
\* the dump of the ledger persisted at the end of that run.
C14_ExportIsCurrent ==
    run.made => run.download = json_dump(Ledger(data_file))

\* C15: in a run in admin mode with a password typed, verify_password
\* returned True exactly when the stored hash is not empty and equals the
\* SHA-256 hex digest of the password.
C15_VerifyExact ==
    (run.mode = "admin" /\ run.pwd # "") =>
        (run.verified <=>
            (ADMIN_PASSWORD_HASH # ""
             /\ ADMIN_PASSWORD_HASH = sha256_hexdigest(run.pwd)))

\* the correct password is accepted
C15_Witness ==
    /\ run.mode = "admin"
    /\ run.pwd = "correct"
    /\ run.verified
    /\ ADMIN_PASSWORD_HASH = sha256_hexdigest("correct")

\* C19: a run in admin mode changes the persisted ledger, draws the table
\* or offers a download only if a password that is not empty was typed in
\* that run and its digest is the stored hash, whatever earlier runs did.
C19_GateEveryRun ==
    [][(run'.mode = "admin" /\ ncalls' # ncalls
        /\ ~(/\ run'.pwd # ""
             /\ ADMIN_PASSWORD_HASH # ""
             /\ sha256_hexdigest(run'.pwd) = ADMIN_PASSWORD_HASH))
       => /\ data_file' = data_file
          /\ ~run'.made
          /\ html' = <<>>]_vars

\* a run with the wrong password after runs that changed balances
C19_Witness ==
    /\ run.mode = "admin"
    /\ run.pwd = "wrong"
    /\ ~run.gate
    /\ \E i \in DOMAIN Ledger(data_file) :
           Ledger(data_file)[i].v = Int_(InitialPoints)

====
